---- MODULE Spec2Model ----
(***************************************************************************)
(* A model of nexus-args-validator: the asynchronous left fold             *)
(* (reduceAsync), the tree walker (mapObject / mapObjectHelper), the two   *)
(* instantiations of the walker (findErrors, applyTransforms), the rule    *)
(* combinators built on the fold, and the plugin's field resolver.         *)
(*                                                                         *)
(* JavaScript values are records [t, n, s, d, a]:                          *)
(*   t  the type tag, n a number, s a string (error code, function kind),  *)
(*   d  "returns a promise" for a function or an item being evaluated,     *)
(*   a  the elements of an array, or the entries [k, v] of an object in    *)
(*      insertion order (the order Object.keys reports).                   *)
(* A promise is not awaited in the model as a value: a MaybePromise record *)
(* carries the value the promise resolves to, the set of leaf promises it  *)
(* waits for (w) and the set of leaf promises that were created (c).       *)
(***************************************************************************)
EXTENDS Integers, Sequences, FiniteSets, TLC

VARIABLES pc, inp, pending, waitOn, outcome, result, nextCalls, errCalls, obs

vars == <<pc, inp, pending, waitOn, outcome, result, nextCalls, errCalls, obs>>

-----------------------------------------------------------------------------
(* Bounds of the model *)

MaxVal == 2

MaxLen == 3

MaxItem == 3

\* the longest list of child rules handed to a combinator
MaxRules == 3

-----------------------------------------------------------------------------
(* JavaScript values *)

JS(t, n, s, d, a) == [t |-> t, n |-> n, s |-> s, d |-> d, a |-> a]

Undefined == JS("undefined", 0, "", FALSE, <<>>)

Null == JS("null", 0, "", FALSE, <<>>)

NaN == JS("nan", 0, "", FALSE, <<>>)

Num(n) == JS("number", n, "", FALSE, <<>>)

\* an ErrorValidationResult [code, extras]; n stands for the extras
Err(code, n) == JS("error", n, code, FALSE, <<>>)

Arr(elems) == JS("array", 0, "", FALSE, elems)

Obj(entries) == JS("object", 0, "", FALSE, entries)

EmptyObj == Obj(<<>>)

Entry(k, v) == [k |-> k, v |-> v]

\* a string is the sequence of its characters; a character is a code:
\* Space is " ", a code in LowerCodes a lowercase letter, and the code of
\* the uppercase letter of a lowercase code c is c + CaseOffset
Chr(code) == JS("char", code, "", FALSE, <<>>)

Str(codes) == JS("string", 0, "", FALSE, [i \in 1..Len(codes) |-> Chr(codes[i])])

Space == 0

LowerCodes == {1, 2}

CaseOffset == 2

\* a function of one argument: kind s, parameter n, result of a constant
\* function in a, d = it returns a promise of its result
Fn(kind, n, deferred, res) == JS("function", n, kind, deferred, <<res>>)

\* a function declared async, which returns a promise of its result: its
\* class is AsyncFunction, and it has no keys of its own
AsyncFn(kind, n) == JS("asyncfunction", n, kind, TRUE, <<>>)

\* an item of a plain array handed to reduceAsync; d = evaluate returns a
\* promise for this item
Item(n, deferred) == JS("number", n, "", deferred, <<>>)

\* JavaScript truthiness (!x is ~Truthy(x))
Truthy(v) ==
  /\ v.t \notin {"undefined", "null", "nan"}
  /\ ~(v.t = "number" /\ v.n = 0)
  /\ ~(v.t = "string" /\ v.a = <<>>)

Absent(v) == v.t \in {"undefined", "null"}

\* JavaScript + on the numbers, undefined, null and NaN of the model
Add(x, y) ==
  IF x.t \in {"number", "null"} /\ y.t \in {"number", "null"}
  THEN Num((IF x.t = "null" THEN 0 ELSE x.n) + (IF y.t = "null" THEN 0 ELSE y.n))
  ELSE NaN

\* JavaScript x * k
Mul(x, k) ==
  IF x.t = "number" THEN Num(x.n * k)
  ELSE IF x.t = "null" THEN Num(0)
  ELSE NaN

\* JavaScript x < n and x > n for a number n: null counts as 0, and the
\* comparison is false for undefined, NaN and objects
Less(x, n) == (x.t = "number" /\ x.n < n) \/ (x.t = "null" /\ 0 < n)

Greater(x, n) == (x.t = "number" /\ x.n > n) \/ (x.t = "null" /\ 0 > n)

\* obj[key]; undefined when the key is missing or obj is not an object
Get(obj, key) ==
  IF obj.t = "object" /\ \E i \in 1..Len(obj.a) : obj.a[i].k = key
  THEN obj.a[CHOOSE i \in 1..Len(obj.a) : obj.a[i].k = key].v
  ELSE Undefined

Has(obj, key) == obj.t = "object" /\ \E i \in 1..Len(obj.a) : obj.a[i].k = key

\* obj[key] = val: an existing key keeps its position, a new key goes last
Put(obj, key, val) ==
  IF obj.t # "object" THEN obj
  ELSE IF Has(obj, key)
  THEN Obj([i \in 1..Len(obj.a) |->
              IF obj.a[i].k = key THEN Entry(key, val) ELSE obj.a[i]])
  ELSE Obj(Append(obj.a, Entry(key, val)))

\* obj[path[1]][path[2]]...
RECURSIVE GetPath(_, _)
GetPath(tree, path) ==
  IF path = <<>> THEN tree ELSE GetPath(Get(tree, path[1]), Tail(path))

Keys(obj) == [i \in 1..Len(obj.a) |-> obj.a[i].k]

-----------------------------------------------------------------------------
(* MaybePromise: p = it is a promise, v = the value (it resolves to),      *)
(* w = the leaf promises it waits for, c = the leaf promises created       *)

MP(p, v, w, c) == [p |-> p, v |-> v, w |-> w, c |-> c]

Now(v) == MP(FALSE, v, {}, {})

\* the identity of a leaf promise: the walk (phase) that created it, the
\* access key of its leaf and its index in the array at that leaf
Pid(phase, path, j) == [ph |-> phase, path |-> path, j |-> j]

-----------------------------------------------------------------------------
(* Leaf rules: validators and transformers *)

\* an errorOrPassCondition: kind names the test, n and m are the numbers in
\* its closure, d says that it returns a promise of its outcome
Cond(kind, n, m, d) == [kind |-> kind, n |-> n, m |-> m, d |-> d]

\* the outcome of a condition on arg (the value its promise resolves to,
\* when it returns one)
errorOrPassCondition(cond, arg) ==
  CASE cond.kind = "lt" -> Less(arg, cond.n)
    [] cond.kind = "gt" -> Greater(arg, cond.n)
    [] cond.kind = "range" -> Less(arg, cond.n) \/ Greater(arg, cond.m)
    [] cond.kind = "lengthGt0" -> arg.t \in {"string", "array"} /\ Len(arg.a) > 0
    [] cond.kind = "isNull" -> arg.t = "null"
    [] cond.kind = "isUndefined" -> arg.t = "undefined"
    [] OTHER -> FALSE

\* a defineValidator whose validators hand every argument to the condition
\* as it is
defineValidator_Strict(errorCode, cond, n, takeErrorCondition, nullabilityStrategy, arg0) ==
  LET c == cond.d \/ errorOrPassCondition(cond, arg0)
  IN IF (IF takeErrorCondition THEN c ELSE ~c)
     THEN Err(errorCode, n) ELSE Undefined

\* defineValidator(errorCode, errorOrPassCondition, extras,
\* takeErrorCondition, nullabilityStrategy)(arg0); n stands for the extras.
\* What the condition returns is used as the test of ?: and as the operand
\* of !, where a promise counts as true
defineValidator(errorCode, cond, n, takeErrorCondition, nullabilityStrategy, arg0) ==
  IF nullabilityStrategy = "normal" /\ arg0.t \in {"null", "undefined"}
  THEN Undefined
  ELSE LET arg == IF nullabilityStrategy = "strict-with-null" /\ arg0.t = "undefined"
                  THEN Null ELSE arg0
           c == cond.d \/ errorOrPassCondition(cond, arg)
       IN IF (IF takeErrorCondition THEN c ELSE ~c)
          THEN Err(errorCode, n) ELSE Undefined

max(n, arg) == defineValidator("max", Cond("gt", n, 0, FALSE), n, TRUE, "normal", arg)

\* a min that takes the opposite comparison
min_Above(n, arg) == defineValidator("min", Cond("gt", n, 0, FALSE), n, TRUE, "normal", arg)

min(n, arg) == defineValidator("min", Cond("lt", n, 0, FALSE), n, TRUE, "normal", arg)

\* a range that has no upper bound
range_Min(lowerBound, upperBound, arg) == min(lowerBound, arg)

\* range(lowerBound, upperBound)(arg); of the extras the lower bound is
\* kept
range(lowerBound, upperBound, arg) ==
  defineValidator("range", Cond("range", lowerBound, upperBound, FALSE), lowerBound,
                  TRUE, "normal", arg)

\* nonEmpty(arg): the condition arg.length > 0, taken as the error condition
nonEmpty(arg) ==
  defineValidator("non-empty", Cond("lengthGt0", 0, 0, FALSE), 0, TRUE, "normal", arg)

RECURSIVE trimStart(_)
\* the characters of a string without its leading white space
trimStart(chars) ==
  IF chars # <<>> /\ Head(chars).n = Space THEN trimStart(Tail(chars)) ELSE chars

RECURSIVE trimEnd(_)
trimEnd(chars) ==
  IF chars # <<>> /\ chars[Len(chars)].n = Space
  THEN trimEnd(SubSeq(chars, 1, Len(chars) - 1))
  ELSE chars

\* arg.trim(), for a string arg
trim(arg) == [arg EXCEPT !.a = trimEnd(trimStart(arg.a))]

\* arg.toLowerCase(), for a string arg
lowercase(arg) ==
  [arg EXCEPT !.a = [i \in 1..Len(arg.a) |->
                       IF (arg.a[i].n - CaseOffset) \in LowerCodes
                       THEN Chr(arg.a[i].n - CaseOffset)
                       ELSE arg.a[i]]]

\* arg.toUpperCase(), for a string arg
uppercase(arg) ==
  [arg EXCEPT !.a = [i \in 1..Len(arg.a) |->
                       IF arg.a[i].n \in LowerCodes
                       THEN Chr(arg.a[i].n + CaseOffset)
                       ELSE arg.a[i]]]

\* arg ? arg.trim() : arg
trimNullable(arg) == IF Truthy(arg) THEN trim(arg) ELSE arg

\* arg ? arg.toLowerCase() : arg
lowercaseNullable(arg) == IF Truthy(arg) THEN lowercase(arg) ELSE arg

\* arg ? arg.toUpperCase() : arg
uppercaseNullable(arg) == IF Truthy(arg) THEN uppercase(arg) ELSE arg

\* clamp(lowerBound, upperBound)(arg); a bound is a number or undefined
clamp(lowerBound, upperBound, arg) ==
  IF Truthy(lowerBound) /\ Less(arg, lowerBound.n) THEN lowerBound
  ELSE IF Truthy(upperBound) /\ Greater(arg, upperBound.n) THEN upperBound
  ELSE arg

\* clampNullable(lowerBound, upperBound)(arg)
clampNullable(lowerBound, upperBound, arg) ==
  IF ~Truthy(arg) THEN arg
  ELSE IF Truthy(lowerBound) /\ Less(arg, lowerBound.n) THEN lowerBound
  ELSE IF Truthy(upperBound) /\ Greater(arg, upperBound.n) THEN upperBound
  ELSE arg

\* what calling the function fn on arg returns: d = a promise, v = the
\* value (it resolves to)
Call(fn, arg) ==
  [d |-> fn.d,
   v |-> CASE fn.s = "const" -> fn.a[1]
           [] fn.s = "min" -> min(fn.n, arg)
           [] fn.s = "max" -> max(fn.n, arg)
           [] fn.s = "inc" -> Add(arg, Num(1))
           [] fn.s = "dbl" -> Mul(arg, 2)
           [] fn.s = "trim" /\ arg.t = "string" -> trim(arg)
           [] fn.s = "lowercase" /\ arg.t = "string" -> lowercase(arg)
           [] OTHER -> Undefined]

-----------------------------------------------------------------------------
(* reduceAsync.  A call is described by c = [array, m, arg, phase, path]:  *)
(* m names the evaluate, callback and manipulateReturn functions of the    *)
(* caller, arg is the value the caller's closure holds.                    *)

\* the evaluate functions of the callers
Evaluate(c, acc, item) ==
  CASE c.m.ev = "item" -> [d |-> item.d, v |-> Num(item.n)]
    [] c.m.ev = "validator" -> Call(item, c.arg)
    [] c.m.ev = "transformer" -> Call(item, acc)

\* what a callback returns, and whether it called returnEarly(result)
CB(acc, early, res) == [acc |-> acc, early |-> early, result |-> res]

push(arr, v) == Arr(Append(arr.a, v))

\* the callback of andValidators
andCallback(m, acc, validationResult) ==
  IF validationResult.t \notin {"undefined", "null"}
  THEN IF m.abortEarly
       THEN CB(acc, TRUE, IF Truthy(m.error) THEN m.error ELSE validationResult)
       ELSE CB(push(acc, validationResult), Truthy(m.error), m.error)
  ELSE CB(acc, FALSE, Undefined)

\* the callback of orValidators
orCallback(m, acc, validationResult) ==
  IF validationResult.t = "undefined"
  THEN CB(acc, TRUE, Undefined)
  ELSE CB(push(acc, validationResult), FALSE, Undefined)

\* the callback functions of the callers
Callback(c, acc, v) ==
  CASE c.m.cb = "add" -> CB(Add(acc, v), FALSE, Undefined)
    [] c.m.cb = "addEarly" -> CB(Add(acc, v), v.t = "number" /\ v.n >= 2, Num(200))
    [] c.m.cb = "addEarlyUndefined" ->
         CB(Add(acc, v), v.t = "number" /\ v.n >= 2, Undefined)
    [] c.m.cb = "last" -> CB(v, FALSE, Undefined)
    [] c.m.cb = "and" -> andCallback(c.m, acc, v)
    [] c.m.cb = "or" -> orCallback(c.m, acc, v)

\* the manipulateReturn functions of the callers
manipulateReturn(c, acc) ==
  CASE c.m.manip = "none" -> acc
    [] c.m.manip = "double" -> Mul(acc, 2)
    [] c.m.manip = "errors" ->
         IF Len(acc.a) = 0 THEN Undefined
         ELSE IF Truthy(c.m.error) THEN c.m.error ELSE acc

\* a loop that goes on after the callback called returnEarly
returnsEarly_Never(r) == FALSE

\* if (earlyResult.inner) return earlyResult.inner.result
returnsEarly(r) == r.early

\* the index at which the evaluation of item j is stored in
\* restArrMaybePromises once item i returned a promise
restIndex(i, j) == j - i - 1

\* restArrMaybePromises after its loop, as a 0-based array: item i is put
\* at 0, then every later item j at restIndex(i, j)
restArr(c, acc, i) ==
  LET n == Len(c.array)
      top == IF n > i
             THEN CHOOSE k \in 0..n :
                    /\ k = 0 \/ \E j \in (i+1)..n : restIndex(i, j) = k
                    /\ \A j \in (i+1)..n : restIndex(i, j) <= k
             ELSE 0
      src(k) == IF \E j \in (i+1)..n : restIndex(i, j) = k
                THEN CHOOSE j \in (i+1)..n :
                       /\ restIndex(i, j) = k
                       /\ \A j2 \in (i+1)..n : restIndex(i, j2) = k => j2 <= j
                ELSE IF k = 0 THEN i ELSE 0
  IN [k \in 0..top |->
        IF src(k) = 0 THEN [j |-> 0, d |-> FALSE, v |-> Undefined]
        ELSE LET e == Evaluate(c, acc, c.array[src(k)])
             IN [j |-> src(k), d |-> e.d, v |-> e.v]]

RECURSIVE replay(_, _, _, _, _)
\* the callback of Promise.all(restArrMaybePromises).then
replay(c, rest, i, j, acc) ==
  IF j > Len(c.array) THEN acc
  ELSE LET v == IF (j - i) \in DOMAIN rest THEN rest[j - i].v ELSE Undefined
           r == Callback(c, acc, v)
       IN IF returnsEarly(r) THEN r.result ELSE replay(c, rest, i, j + 1, r.acc)

RECURSIVE reduceLoop(_, _, _)
reduceLoop(c, i, acc) ==
  IF i > Len(c.array) THEN Now(manipulateReturn(c, acc))
  ELSE LET valueOrPromise == Evaluate(c, acc, c.array[i])
       IN IF valueOrPromise.d
          THEN LET rest == restArr(c, acc, i)
               IN MP(TRUE, replay(c, rest, i, i, acc),
                     {Pid(c.phase, c.path, rest[k].j) : k \in {x \in DOMAIN rest : rest[x].d}},
                     {Pid(c.phase, c.path, j) :
                        j \in {x \in i..Len(c.array) : Evaluate(c, acc, c.array[x]).d}})
          ELSE LET r == Callback(c, acc, valueOrPromise.v)
               IN IF returnsEarly(r) THEN Now(r.result) ELSE reduceLoop(c, i + 1, r.acc)

reduceAsync(c, initialValue) == reduceLoop(c, 1, initialValue)

RECURSIVE replayLog(_, _, _, _, _)
\* the invocations of callback by the then-callback from item j on: each
\* with the value it was passed, whether it called returnEarly, and with
\* what
replayLog(c, rest, i, j, acc) ==
  IF j > Len(c.array) THEN <<>>
  ELSE LET v == IF (j - i) \in DOMAIN rest THEN rest[j - i].v ELSE Undefined
           r == Callback(c, acc, v)
       IN <<[f |-> "callback", j |-> j, v |-> v, early |-> r.early,
             result |-> r.result]>>
            \o (IF returnsEarly(r) THEN <<>>
                ELSE replayLog(c, rest, i, j + 1, r.acc))

RECURSIVE reduceLog(_, _, _)
\* the invocations of evaluate and callback from item i on, in order: sync
\* by the call itself, then by its then-callback
reduceLog(c, i, acc) ==
  IF i > Len(c.array) THEN [sync |-> <<>>, then |-> <<>>]
  ELSE LET valueOrPromise == Evaluate(c, acc, c.array[i])
           ev == [f |-> "evaluate", j |-> i, v |-> Undefined, early |-> FALSE,
                  result |-> Undefined]
       IN IF valueOrPromise.d
          THEN [sync |-> <<ev>> \o [k \in 1..(Len(c.array) - i) |->
                                      [ev EXCEPT !.j = i + k]],
                then |-> replayLog(c, restArr(c, acc, i), i, i, acc)]
          ELSE LET r == Callback(c, acc, valueOrPromise.v)
                   cb == [f |-> "callback", j |-> i, v |-> valueOrPromise.v,
                          early |-> r.early, result |-> r.result]
                   more == IF returnsEarly(r) THEN [sync |-> <<>>, then |-> <<>>]
                           ELSE reduceLog(c, i + 1, r.acc)
               IN [sync |-> <<ev, cb>> \o more.sync, then |-> more.then]

-----------------------------------------------------------------------------
(* The rule combinators the walkers use for an array at a leaf *)

\* andValidators(validators, abortEarly, error)(arg)
andValidators(validators, abortEarly, error, arg, phase, path) ==
  reduceAsync([array |-> validators,
               m |-> [ev |-> "validator", cb |-> "and", manip |-> "errors",
                      abortEarly |-> abortEarly, error |-> error],
               arg |-> arg, phase |-> phase, path |-> path],
              Arr(<<>>))

\* orValidators(validators, error)(arg)
orValidators(validators, error, arg, phase, path) ==
  reduceAsync([array |-> validators,
               m |-> [ev |-> "validator", cb |-> "or", manip |-> "errors",
                      abortEarly |-> FALSE, error |-> error],
               arg |-> arg, phase |-> phase, path |-> path],
              Arr(<<>>))

\* a notValidator that hands the child's result through
notResult_Same(validatorResult, error) == validatorResult

\* (validatorResult) => validatorResult === undefined ? error : undefined
notResult(validatorResult, error) ==
  IF validatorResult.t = "undefined" THEN error ELSE Undefined

\* notValidator(validator, error)(arg)
notValidator(validator, error, arg, phase, path) ==
  LET validationResultOrPromise == Call(validator, arg)
  IN IF validationResultOrPromise.d
     THEN MP(TRUE, notResult(validationResultOrPromise.v, error),
             {Pid(phase, path, 0)}, {Pid(phase, path, 0)})
     ELSE Now(notResult(validationResultOrPromise.v, error))

\* combineTransformers(transformers)(arg)
combineTransformers(transformers, arg, phase, path) ==
  reduceAsync([array |-> transformers,
               m |-> [ev |-> "transformer", cb |-> "last", manip |-> "none"],
               arg |-> arg, phase |-> phase, path |-> path],
              arg)

-----------------------------------------------------------------------------
(* mapObject.  The options o = [mapValue, initialValue, relatedObj,        *)
(* searchFor, skipValueCondition, skipBranchCondition, phase]; a predicate *)
(* option is [kind, n] with kind "none" when it is not provided.           *)

\* type(): the tags of the values of the model; the class of a function
\* declared async is none of those the pattern names, and typeof gives
\* "function", so it is an "object"
type(v) ==
  CASE v.t = "error" -> "array"
    [] v.t = "nan" -> "number"
    [] v.t = "asyncfunction" -> "object"
    [] OTHER -> v.t

\* the predicates passed as searchFor and skipValueCondition
Holds(pred, v) ==
  CASE pred.kind = "eq" -> v = Num(pred.n)
    [] pred.kind = "undefined" -> v.t = "undefined"
    [] pred.kind = "defined" -> v.t # "undefined"
    [] OTHER -> FALSE

Provided(pred) == pred.kind # "none"

\* the validator andValidators(validators) returns (abortEarly defaults to
\* true, no error is given), as a function value
Combined(validators) == JS("function", 0, "andValidators", FALSE, validators)

\* a validator tree with every array of validators replaced by the
\* validator andValidators returns for it
RECURSIVE CombinedTree(_)
CombinedTree(tree) ==
  IF tree.t = "object"
  THEN Obj([i \in 1..Len(tree.a) |-> Entry(tree.a[i].k, CombinedTree(tree.a[i].v))])
  ELSE IF tree.t = "array" THEN Combined(tree.a)
  ELSE tree

\* an array of validators that collects the errors of all its validators
arrayRule_CollectAll(validators, arg, phase, path) ==
  andValidators(validators, FALSE, Undefined, arg, phase, path)

\* andValidators(validator)(arg) for the array at a leaf
arrayRule(validators, arg, phase, path) ==
  andValidators(validators, TRUE, Undefined, arg, phase, path)

\* a leaf function called on the related value
callLeaf(fn, relatedValue, phase, path) ==
  IF fn.s = "andValidators"
  THEN andValidators(fn.a, TRUE, Undefined, relatedValue, phase, path)
  ELSE LET r == Call(fn, relatedValue)
       IN IF r.d THEN MP(TRUE, r.v, {Pid(phase, path, 0)}, {Pid(phase, path, 0)})
          ELSE Now(r.v)

\* the mapValue functions: of findErrors, of applyTransforms, and "call",
\* which calls the function at the leaf
mapValue(o, value, relatedValue, path) ==
  CASE type(value) = "array" /\ o.mapValue = "findErrors" ->
         arrayRule(value.a, relatedValue, o.phase, path)
    [] type(value) = "array" /\ o.mapValue = "applyTransforms" ->
         combineTransformers(value.a, relatedValue, o.phase, path)
    [] type(value) = "function" -> callLeaf(value, relatedValue, o.phase, path)
    [] OTHER -> Now(value)

\* an assignment that starts a new mapping at every intermediate key,
\* whatever is there
RECURSIVE assignObjectAt_Fresh(_, _, _)
assignObjectAt_Fresh(obj, accessKey, value) ==
  IF Len(accessKey) <= 1
  THEN Put(obj, IF Len(accessKey) = 1 THEN accessKey[1] ELSE "undefined", value)
  ELSE Put(obj, accessKey[1], assignObjectAt_Fresh(EmptyObj, Tail(accessKey), value))

RECURSIVE assignObjectAt(_, _, _)
assignObjectAt(obj, accessKey, value) ==
  IF Len(accessKey) <= 1
  THEN Put(obj, IF Len(accessKey) = 1 THEN accessKey[1] ELSE "undefined", value)
  ELSE LET cur == Get(obj, accessKey[1])
           child == IF ~Truthy(cur) THEN EmptyObj ELSE cur
       IN Put(obj, accessKey[1], assignObjectAt(child, Tail(accessKey), value))

\* a walk that starts every frame with a mapping of its own when there is
\* no seed, instead of the seed as it is
startResult_Eager(initialValue) ==
  IF ~Truthy(initialValue) THEN EmptyObj ELSE initialValue

\* let resultObj = initialValue
startResult(initialValue) == initialValue

\* if (!resultObj) resultObj = {}
orEmpty(resultObj) == IF ~Truthy(resultObj) THEN EmptyObj ELSE resultObj

\* a walk that never consults skipBranchCondition
enterBranch_Always(o, value, relatedValue) == TRUE

\* !skipBranchCondition || !skipBranchCondition(value, relatedValue)
enterBranch(o, value, relatedValue) ==
  o.skipBranchCondition = "none" \/ ~(~Truthy(relatedValue))

\* !skipValueCondition || !skipValueCondition(mappedValue)
notSkipped(o, mappedValue) ==
  ~Provided(o.skipValueCondition) \/ ~Holds(o.skipValueCondition, mappedValue)

\* the state of a walk: the result object of the current frame, the
\* promises and their access keys, the leaves mapValue was called for, and
\* a thrown ["abort-early", tree]
Walk(res, proms, calls, abort, abortVal) ==
  [res |-> res, proms |-> proms, calls |-> calls, abort |-> abort, abortVal |-> abortVal]

\* a leaf of the rule tree, in the frame whose result object is st.res,
\* once mapValue(value, relatedValue) returned mappedValueOrPromise
visitLeaf(o, st, key, path, mappedValueOrPromise, relatedValue) ==
  LET calls == Append(st.calls, [path |-> path, rel |-> relatedValue])
  IN IF mappedValueOrPromise.p
     THEN Walk(st.res, Append(st.proms, [path |-> path, mp |-> mappedValueOrPromise]),
               calls, FALSE, Undefined)
     ELSE IF notSkipped(o, mappedValueOrPromise.v)
     THEN IF Provided(o.searchFor)
          THEN IF Holds(o.searchFor, mappedValueOrPromise.v)
               THEN Walk(st.res, st.proms, calls, TRUE,
                         assignObjectAt(EmptyObj, path, mappedValueOrPromise.v))
               ELSE Walk(st.res, st.proms, calls, FALSE, Undefined)
          ELSE Walk(Put(orEmpty(st.res), key, mappedValueOrPromise.v),
                    st.proms, calls, FALSE, Undefined)
     ELSE Walk(st.res, st.proms, calls, FALSE, Undefined)

\* if (branch) { resultObj[key] = branch }
mergeBranch(resultObj, key, branch) ==
  IF Truthy(branch) THEN Put(orEmpty(resultObj), key, branch) ELSE resultObj

\* the frame after the recursive call for the branch at key returned b (or
\* threw)
afterBranch(st, key, b) ==
  IF b.abort THEN b
  ELSE Walk(mergeBranch(st.res, key, b.res), b.proms, b.calls, FALSE, Undefined)

\* a walk that hands no seed down to the frame of a nested branch
childInitial_None(initialValue, key) == Null

\* initialValue ? initialValue[key] : initialValue
childInitial(initialValue, key) ==
  IF Truthy(initialValue) THEN Get(initialValue, key) ELSE initialValue

RECURSIVE mapObjectHelper(_, _, _, _, _, _, _)
RECURSIVE helperLoop(_, _, _, _, _, _, _)
\* the for loop of mapObjectHelper from the k-th key on
helperLoop(o, st, currentAccessKey, obj, initialValue, relatedObj, k) ==
  IF k > Len(obj.a) \/ st.abort THEN st
  ELSE LET key == obj.a[k].k
           value == obj.a[k].v
           relatedValue == IF Truthy(relatedObj) THEN Get(relatedObj, key) ELSE relatedObj
           path == Append(currentAccessKey, key)
           st2 ==
             IF type(value) = "object"
             THEN IF enterBranch(o, value, relatedValue)
                  THEN afterBranch(st, key,
                         mapObjectHelper(o, st.proms, st.calls, path, value,
                                         childInitial(initialValue, key), relatedValue))
                  ELSE st
             ELSE visitLeaf(o, st, key, path,
                            mapValue(o, value, relatedValue, path), relatedValue)
       IN helperLoop(o, st2, currentAccessKey, obj, initialValue, relatedObj, k + 1)

mapObjectHelper(o, promises, calls, currentAccessKey, obj, initialValue, relatedObj) ==
  helperLoop(o, Walk(startResult(initialValue), promises, calls, FALSE, Undefined),
             currentAccessKey, obj, initialValue, relatedObj, 1)

\* what the then-callback of mapObject passes to searchFor for the i-th
\* resolved value
searchForArg(mappedValues, i) == Arr(mappedValues)

\* a then-callback that takes every access key from the first entry
promisesAccessKey_First(proms, i) == proms[1].path

\* promisesAccessKeys[i]: the access key pushed with the i-th promise
promisesAccessKey(proms, i) == proms[i].path

RECURSIVE mapObjectThen(_, _, _, _)
\* the callback of Promise.all(promises).then in mapObject, from the i-th
\* resolved value on
mapObjectThen(o, proms, i, resultObj) ==
  IF i > Len(proms) THEN resultObj
  ELSE LET mappedValue == proms[i].mp.v
           mappedValues == [x \in 1..Len(proms) |-> proms[x].mp.v]
       IN IF notSkipped(o, mappedValue)
          THEN IF Provided(o.searchFor)
               THEN IF Holds(o.searchFor, searchForArg(mappedValues, i))
                    THEN assignObjectAt(EmptyObj, promisesAccessKey(proms, i), mappedValue)
                    ELSE mapObjectThen(o, proms, i + 1, resultObj)
               ELSE mapObjectThen(o, proms, i + 1,
                      assignObjectAt(orEmpty(resultObj), promisesAccessKey(proms, i),
                                     mappedValue))
          ELSE mapObjectThen(o, proms, i + 1, resultObj)

\* the object passed as initialValue, once resultObj is what the walk or
\* the then-callback ended with: resultObj is initialValue itself (let
\* resultObj = initialValue), so every resultObj[key] = ... and
\* assignObjectAt(resultObj, ...) writes into it; with searchFor nothing is
\* assigned, and a null initialValue is no object
initialValueAfter(o, resultObj) ==
  IF Truthy(o.initialValue) /\ ~Provided(o.searchFor) THEN resultObj
  ELSE o.initialValue

\* a mapObject that always hands its result back as a promise
mapObjectReturn_Async(o, h) ==
  [calls |-> h.calls,
   proms |-> h.proms,
   seed |-> initialValueAfter(o, h.res),
   mp |-> MP(TRUE,
             IF h.abort THEN h.abortVal ELSE mapObjectThen(o, h.proms, 1, h.res),
             UNION {h.proms[i].mp.w : i \in 1..Len(h.proms)},
             UNION {h.proms[i].mp.c : i \in 1..Len(h.proms)})]

\* mapObject(obj, mapValue, options); calls is the log of the leaves
\* mapValue was called for, seed the object passed as initialValue as the
\* synchronous pass leaves it
mapObjectReturn(o, h) ==
  LET created == UNION {h.proms[i].mp.c : i \in 1..Len(h.proms)}
      awaited == UNION {h.proms[i].mp.w : i \in 1..Len(h.proms)}
  IN [calls |-> h.calls,
      proms |-> h.proms,
      seed |-> initialValueAfter(o, h.res),
      mp |-> IF h.abort THEN MP(FALSE, h.abortVal, {}, created)
             ELSE IF Len(h.proms) # 0
             THEN MP(TRUE, mapObjectThen(o, h.proms, 1, h.res), awaited, created)
             ELSE MP(FALSE, h.res, {}, created)]

mapObjectRun(obj, o) ==
  mapObjectReturn(o, mapObjectHelper(o, <<>>, <<>>, <<>>, obj,
                                     o.initialValue, o.relatedObj))

mapObject(obj, o) == mapObjectRun(obj, o).mp

-----------------------------------------------------------------------------
(* The state machine.  A call runs synchronously up to its return; the     *)
(* leaf promises it created settle one at a time in any order; a promise   *)
(* it returned is resolved by the then-callback once everything it waits   *)
(* for has settled.                                                        *)

NoCall == [op |-> "none"]

Init ==
  /\ pc = "idle"
  /\ inp = NoCall
  /\ pending = {}
  /\ waitOn = {}
  /\ outcome = Now(Undefined)
  /\ result = Undefined
  /\ nextCalls = <<>>
  /\ errCalls = <<>>
  /\ obs = NoCall

\* a leaf promise settles
Settle ==
  /\ \E id \in pending : pending' = pending \ {id}
  /\ UNCHANGED <<pc, inp, waitOn, outcome, result, nextCalls, errCalls, obs>>

\* the caller receives what the call returned: a value, or a promise
Return(mp, awaiting) ==
  /\ outcome' = mp
  /\ pending' = mp.c
  /\ waitOn' = IF mp.p THEN mp.w ELSE {}
  /\ pc' = IF mp.p THEN awaiting ELSE "done"
  /\ result' = IF mp.p THEN Undefined ELSE mp.v

\* the same, for a walk: the leaves mapValue was called for and the object
\* passed as initialValue are recorded
ReturnRun(run, awaiting) ==
  /\ obs' = [op |-> "mapObject", calls |-> run.calls, seed |-> run.seed]
  /\ Return(run.mp, awaiting)

\* the arrays of 0..MaxLen items 1..MaxItem, each evaluated immediately or
\* as a promise
Items == {Item(n, d) : n \in 1..MaxItem, d \in BOOLEAN}

ItemArrays == UNION {[1..len -> Items] : len \in 0..MaxLen}

\* the folds of the tests: a sum, a sum that is doubled at the end, a sum
\* whose callback returns early with 200, and one whose callback returns
\* early with undefined, as the callback of orValidators does
SumModes ==
  {[ev |-> "item", cb |-> cb, manip |-> manip] :
     cb \in {"add", "addEarly", "addEarlyUndefined"}, manip \in {"none", "double"}}

CallReduceAsync ==
  /\ pc = "idle"
  /\ \E array \in ItemArrays, m \in SumModes, initialValue \in {Num(0), Num(4)} :
       LET c == [array |-> array, m |-> m, arg |-> Undefined,
                 phase |-> "reduce", path |-> <<>>]
       IN /\ inp' = [op |-> "reduceAsync", c |-> c, initialValue |-> initialValue]
          /\ obs' = [op |-> "reduceAsync", log |-> reduceLog(c, 1, initialValue).sync]
          /\ Return(reduceAsync(c, initialValue), "awaitReduce")
  /\ UNCHANGED <<nextCalls, errCalls>>

\* Promise.all(restArrMaybePromises).then(...)
ReduceThen ==
  /\ pc = "awaitReduce"
  /\ waitOn \cap pending = {}
  /\ pc' = "done"
  /\ result' = outcome.v
  /\ obs' = [obs EXCEPT !.log = @ \o reduceLog(inp.c, 1, inp.initialValue).then]
  /\ UNCHANGED <<inp, pending, waitOn, outcome, nextCalls, errCalls>>

NextReduce == CallReduceAsync \/ Settle \/ ReduceThen

SpecReduce == Init /\ [][NextReduce]_vars

\* the same call with every evaluation returned immediately
AllSync(c) ==
  [c EXCEPT !.array = [i \in 1..Len(c.array) |-> [c.array[i] EXCEPT !.d = FALSE]]]

\* C10: reduceAsync yields the same final value whether every evaluate call
\* returns immediately or any subset of them returns a promise
C10_SameValueDeferred ==
  (pc = "done" /\ inp.op = "reduceAsync")
    => result = reduceAsync(AllSync(inp.c), inp.initialValue).v

-----------------------------------------------------------------------------
(* Calls of the rule combinators: andValidators, orValidators,             *)
(* notValidator and combineTransformers on a list of child rules, each     *)
(* child returning immediately or as a promise.                            *)

\* the sequences of 2..MaxRules elements of a set
Lists(S) == UNION {[1..len -> S] : len \in 2..MaxRules}

\* child validators: min(5), max(10) and one that fails on every argument
RuleValidators ==
  {Fn("min", 5, d, Undefined) : d \in BOOLEAN}
    \cup {Fn("max", 10, d, Undefined) : d \in BOOLEAN}
    \cup {Fn("const", 0, d, Err("invalid", 0)) : d \in BOOLEAN}

\* arguments below, between and above the two limits
RuleArgs == {Num(3), Num(7), Num(20)}

\* the error given to a combinator: none, or one of its own
OverrideErrors == {Undefined, Err("override", 0)}

NumTransformers == {Fn(k, 0, d, Undefined) : k \in {"inc", "dbl"}, d \in BOOLEAN}

StrTransformers == {Fn(k, 0, d, Undefined) : k \in {"trim", "lowercase"}, d \in BOOLEAN}

\* " Ab ", "aB" and " "
StrArgs == {Str(<<0, 3, 2, 0>>), Str(<<1, 4>>), Str(<<0>>)}

NumArgs == {Num(n) : n \in 0..MaxVal}

CallAndValidators ==
  /\ pc = "idle"
  /\ \E validators \in Lists(RuleValidators), abortEarly \in BOOLEAN,
        error \in OverrideErrors, arg \in RuleArgs :
       /\ inp' = [op |-> "andValidators", rules |-> validators,
                  abortEarly |-> abortEarly, error |-> error, arg |-> arg]
       /\ Return(andValidators(validators, abortEarly, error, arg, "rule", <<>>),
                 "awaitRule")
  /\ UNCHANGED <<nextCalls, errCalls, obs>>

CallOrValidators ==
  /\ pc = "idle"
  /\ \E validators \in Lists(RuleValidators), error \in OverrideErrors,
        arg \in RuleArgs :
       /\ inp' = [op |-> "orValidators", rules |-> validators,
                  abortEarly |-> FALSE, error |-> error, arg |-> arg]
       /\ Return(orValidators(validators, error, arg, "rule", <<>>), "awaitRule")
  /\ UNCHANGED <<nextCalls, errCalls, obs>>

CallNotValidator ==
  /\ pc = "idle"
  /\ \E validator \in RuleValidators, arg \in RuleArgs :
       /\ inp' = [op |-> "notValidator", rules |-> <<validator>>,
                  abortEarly |-> FALSE, error |-> Err("override", 0), arg |-> arg]
       /\ Return(notValidator(validator, Err("override", 0), arg, "rule", <<>>),
                 "awaitRule")
  /\ UNCHANGED <<nextCalls, errCalls, obs>>

CallCombineTransformers ==
  /\ pc = "idle"
  /\ \E kind \in {"number", "string"} :
       \E transformers \in Lists(IF kind = "number" THEN NumTransformers
                                  ELSE StrTransformers),
          arg \in (IF kind = "number" THEN NumArgs ELSE StrArgs) :
         /\ inp' = [op |-> "combineTransformers", rules |-> transformers,
                    abortEarly |-> FALSE, error |-> Undefined, arg |-> arg]
         /\ Return(combineTransformers(transformers, arg, "rule", <<>>), "awaitRule")
  /\ UNCHANGED <<nextCalls, errCalls, obs>>

\* a validator built by defineValidator, called on an absent argument or
\* a number: the condition tells null, undefined or a number below 1, at
\* once or as a promise
CallDefineValidator ==
  /\ pc = "idle"
  /\ \E kind \in {"lt", "isNull", "isUndefined"}, d \in BOOLEAN,
        takeErrorCondition \in BOOLEAN,
        nullabilityStrategy \in {"normal", "strict", "strict-with-null"},
        arg \in {Undefined, Null} \cup NumArgs :
       /\ inp' = [op |-> "defineValidator", cond |-> Cond(kind, 1, 0, d),
                  takeErrorCondition |-> takeErrorCondition,
                  nullabilityStrategy |-> nullabilityStrategy, arg |-> arg]
       /\ Return(Now(defineValidator("custom", Cond(kind, 1, 0, d), 0,
                                     takeErrorCondition, nullabilityStrategy, arg)),
                 "done")
  /\ UNCHANGED <<nextCalls, errCalls, obs>>

\* a built-in validator called on an argument: nonEmpty on strings and
\* arrays of 0..2 elements, min, max and range with bounds 0..MaxVal on the
\* numbers -1..MaxVal+1
CallValidator ==
  /\ pc = "idle"
  /\ \/ \E arg \in StrArgs \cup {Str(<<>>), Arr(<<>>), Arr(<<Num(1)>>),
                              Arr(<<Num(1), Num(2)>>)} :
          /\ inp' = [op |-> "nonEmpty", lowerBound |-> 0, upperBound |-> 0, arg |-> arg]
          /\ Return(Now(nonEmpty(arg)), "done")
     \/ \E name \in {"min", "max", "range"}, lowerBound \in 0..MaxVal,
           upperBound \in 0..MaxVal, x \in -1..(MaxVal + 1) :
          /\ lowerBound <= upperBound
          /\ inp' = [op |-> name, lowerBound |-> lowerBound,
                     upperBound |-> upperBound, arg |-> Num(x)]
          /\ Return(Now(CASE name = "min" -> min(lowerBound, Num(x))
                           [] name = "max" -> max(upperBound, Num(x))
                           [] name = "range" -> range(lowerBound, upperBound, Num(x))),
                    "done")
  /\ UNCHANGED <<nextCalls, errCalls, obs>>

\* a built-in transformer called on an argument: clamp and clampNullable
\* with bounds that are undefined or 0..MaxVal on the numbers
\* -1..MaxVal+1, clampNullable(1, MaxVal) on null and undefined, the
\* nullable string transformers on strings, the empty string, null and
\* undefined
CallTransformer ==
  /\ pc = "idle"
  /\ \/ \E name \in {"clamp", "clampNullable"},
           lowerBound \in {Undefined} \cup NumArgs,
           upperBound \in {Undefined} \cup NumArgs, x \in -1..(MaxVal + 1) :
          /\ Absent(lowerBound) \/ Absent(upperBound) \/ lowerBound.n <= upperBound.n
          /\ inp' = [op |-> "transformer", name |-> name, lowerBound |-> lowerBound,
                     upperBound |-> upperBound, arg |-> Num(x)]
          /\ Return(Now(IF name = "clamp" THEN clamp(lowerBound, upperBound, Num(x))
                        ELSE clampNullable(lowerBound, upperBound, Num(x))),
                    "done")
     \/ \E arg \in {Undefined, Null} :
          /\ inp' = [op |-> "transformer", name |-> "clampNullable", lowerBound |-> Num(1),
                     upperBound |-> Num(MaxVal), arg |-> arg]
          /\ Return(Now(clampNullable(Num(1), Num(MaxVal), arg)), "done")
     \/ \E name \in {"trimNullable", "lowercaseNullable", "uppercaseNullable"},
           arg \in {Undefined, Null, Str(<<>>)} \cup StrArgs :
          /\ inp' = [op |-> "transformer", name |-> name, lowerBound |-> Undefined,
                     upperBound |-> Undefined, arg |-> arg]
          /\ Return(Now(CASE name = "trimNullable" -> trimNullable(arg)
                           [] name = "lowercaseNullable" -> lowercaseNullable(arg)
                           [] name = "uppercaseNullable" -> uppercaseNullable(arg)),
                    "done")
  /\ UNCHANGED <<nextCalls, errCalls, obs>>

\* assignObjectAt(obj, accessKey, value) on mappings of up to two levels
\* and the paths of 1..MaxLen keys whose intermediate keys are missing,
\* hold null or hold a mapping
CallAssignObjectAt ==
  /\ pc = "idle"
  /\ \E obj \in {EmptyObj,
                  Obj(<<Entry("a", Num(1))>>),
                  Obj(<<Entry("a", Null), Entry("c", Num(2))>>),
                  Obj(<<Entry("c", Num(1)), Entry("a", Obj(<<Entry("b", Num(2))>>))>>),
                  Obj(<<Entry("a", Obj(<<Entry("b", Obj(<<Entry("c", Num(1))>>)),
                                         Entry("c", Num(2))>>)),
                        Entry("b", Num(3))>>)},
        accessKey \in UNION {[1..len -> {"a", "b", "c"}] : len \in 1..MaxLen},
        value \in {Num(0), Obj(<<Entry("a", Num(0))>>)} :
       /\ \A i \in 1..(Len(accessKey) - 1) :
            \/ ~Truthy(GetPath(obj, SubSeq(accessKey, 1, i)))
            \/ GetPath(obj, SubSeq(accessKey, 1, i)).t = "object"
       /\ inp' = [op |-> "assignObjectAt", obj |-> obj, accessKey |-> accessKey,
                  value |-> value]
       /\ Return(Now(assignObjectAt(obj, accessKey, value)), "done")
  /\ UNCHANGED <<nextCalls, errCalls, obs>>

\* the then-callback of the promise a combinator returned
RuleThen ==
  /\ pc = "awaitRule"
  /\ waitOn \cap pending = {}
  /\ pc' = "done"
  /\ result' = outcome.v
  /\ UNCHANGED <<inp, pending, waitOn, outcome, nextCalls, errCalls, obs>>

NextRules ==
  \/ CallAndValidators
  \/ CallOrValidators
  \/ CallNotValidator
  \/ CallCombineTransformers
  \/ CallDefineValidator
  \/ CallValidator
  \/ CallTransformer
  \/ CallAssignObjectAt
  \/ Settle
  \/ RuleThen

SpecRules == Init /\ [][NextRules]_vars

-----------------------------------------------------------------------------
(* Walks of mapObject with the caller's own mapValue: the function at a    *)
(* leaf stands for what mapValue returns for that leaf.                    *)

LeafResults == {Undefined} \cup {Num(n) : n \in 1..MaxVal}

ConstFns == {Fn("const", 0, d, r) : d \in BOOLEAN, r \in LeafResults}

Obj1(k1, v1) == Obj(<<Entry(k1, v1)>>)

Obj2(k1, v1, k2, v2) == Obj(<<Entry(k1, v1), Entry(k2, v2)>>)

Obj3(k1, v1, k2, v2, k3, v3) == Obj(<<Entry(k1, v1), Entry(k2, v2), Entry(k3, v3)>>)

\* the rule trees walked: flat, nested, nested twice, with an empty branch
RuleTrees ==
  {Obj2("a", f, "b", g) : f, g \in ConstFns}
    \cup {Obj2("a", f, "c", Obj1("d", g)) : f, g \in ConstFns}
    \cup {Obj1("c", Obj2("d", f, "e", g)) : f, g \in ConstFns}
    \cup {Obj2("c", Obj1("f", Obj1("e", f)), "b", g) : f, g \in ConstFns}
    \cup {Obj2("c", EmptyObj, "a", f) : f \in ConstFns}
    \cup {Obj3("a", f, "c", Obj1("d", g), "b", h) : f, g, h \in ConstFns}

\* the initialValue options: none, empty, flat, nested, a null branch
Seeds ==
  {Null, EmptyObj,
   Obj2("a", Num(9), "t", Num(9)),
   Obj2("c", Obj2("d", Num(9), "z", Num(9)), "t", Num(9)),
   Obj1("c", Null)}

NoPred == [kind |-> "none", n |-> 0]

SearchFors == {NoPred, [kind |-> "eq", n |-> 1], [kind |-> "defined", n |-> 0]}

SkipValueConditions == {NoPred, [kind |-> "undefined", n |-> 0], [kind |-> "eq", n |-> 2]}

CallMapObject ==
  /\ pc = "idle"
  /\ \E obj \in RuleTrees, initialValue \in Seeds,
        searchFor \in SearchFors, skipValueCondition \in SkipValueConditions :
       LET o == [mapValue |-> "call", initialValue |-> initialValue,
                 relatedObj |-> Null, searchFor |-> searchFor,
                 skipValueCondition |-> skipValueCondition,
                 skipBranchCondition |-> "none", phase |-> "map"]
       IN /\ inp' = [op |-> "mapObject", obj |-> obj, o |-> o]
          /\ ReturnRun(mapObjectRun(obj, o), "awaitMap")
  /\ UNCHANGED <<nextCalls, errCalls>>

\* Promise.all(promises).then(...)
MapObjectThen ==
  /\ pc = "awaitMap"
  /\ waitOn \cap pending = {}
  /\ pc' = "done"
  /\ result' = outcome.v
  /\ obs' = [obs EXCEPT !.seed = initialValueAfter(inp.o, outcome.v)]
  /\ UNCHANGED <<inp, pending, waitOn, outcome, nextCalls, errCalls>>

NextMap == CallMapObject \/ Settle \/ MapObjectThen

SpecMap == Init /\ [][NextMap]_vars

-----------------------------------------------------------------------------
(* The plugin: findErrors, applyTransforms and the field resolver *)

NoOptions ==
  [mapValue |-> "call", initialValue |-> Null, relatedObj |-> Null,
   searchFor |-> NoPred, skipValueCondition |-> NoPred,
   skipBranchCondition |-> "none", phase |-> "map"]

findErrorsRun(args, validatorTree, abortEarly) ==
  mapObjectRun(validatorTree,
    [NoOptions EXCEPT
       !.mapValue = "findErrors",
       !.relatedObj = args,
       !.skipValueCondition = [kind |-> "undefined", n |-> 0],
       !.skipBranchCondition = "absent",
       !.searchFor = IF abortEarly THEN [kind |-> "defined", n |-> 0] ELSE NoPred,
       !.phase = "validate"])

findErrors(args, validatorTree, abortEarly) ==
  findErrorsRun(args, validatorTree, abortEarly).mp

applyTransformsRun(args, transformerTree) ==
  mapObjectRun(transformerTree,
    [NoOptions EXCEPT
       !.mapValue = "applyTransforms",
       !.initialValue = args,
       !.relatedObj = args,
       !.skipBranchCondition = "absent",
       !.phase = "transform"])

applyTransforms(args, transformerTree) == applyTransformsRun(args, transformerTree).mp

\* what the resolver has done so far; in obs, args is the object the
\* resolver was called with as it is now (applyTransforms passes it as
\* initialValue, and its result is that object)
Post(p, pend, w, out, nxt, err, o) ==
  [pc |-> p, pending |-> pend, waitOn |-> w, outcome |-> out,
   nextCalls |-> nxt, errCalls |-> err, obs |-> o]

\* a resolver that goes on to next after it reported the error tree
onErrorsTree_AlsoNext(errorsTree, transformedArgs) ==
  [next |-> <<transformedArgs>>,
   err |-> IF Truthy(errorsTree) THEN <<errorsTree>> ELSE <<>>]

\* a plugin that drops a non-null error tree: neither callback is invoked
onErrorsTree_Silent(errorsTree, transformedArgs) ==
  IF Truthy(errorsTree)
  THEN [next |-> <<>>, err |-> <<>>]
  ELSE [next |-> <<transformedArgs>>, err |-> <<>>]

\* (errorsTree) => { if (errorsTree) onValidationError(errorsTree)
\*                   else return next(root, transformedArgs, ctx, info) }
onErrorsTree(errorsTree, transformedArgs) ==
  IF Truthy(errorsTree)
  THEN [next |-> <<>>, err |-> <<errorsTree>>]
  ELSE [next |-> <<transformedArgs>>, err |-> <<>>]

afterFindErrors(errorsTree, pend, o) ==
  LET r == onErrorsTree(errorsTree, o.transformed)
  IN Post("done", pend, {}, Now(errorsTree), r.next, r.err,
          [o EXCEPT !.errorsTree = errorsTree, !.settled = TRUE])

\* (transformedArgs) => { if (validate) ... else return next(...) }
\* completeValue(errorsTreeOrPromise, ...) for what findErrors returned
onFindErrors(run, pend, o) ==
  LET o2 == [o EXCEPT !.validated = TRUE,
                      !.validatorCalls = run.calls,
                      !.pendingAtValidate = pend]
  IN IF run.mp.p
     THEN Post("awaitValidate", pend \cup run.mp.c, run.mp.w, run.mp, <<>>, <<>>, o2)
     ELSE afterFindErrors(run.mp.v, pend \cup run.mp.c, o2)

onTransformedArgs(call, transformedArgs, pend, o0) ==
  LET o == [o0 EXCEPT !.transformed = transformedArgs,
                      !.args = IF call.transform # Undefined THEN transformedArgs
                               ELSE @]
  IN IF call.validate # Undefined
     THEN onFindErrors(findErrorsRun(transformedArgs, call.validate, call.abortEarly),
                       pend, o)
     ELSE Post("done", pend, {}, Now(transformedArgs), <<transformedArgs>>, <<>>, o)

\* completeValue(transformedArgsOrPromise, ...) for what applyTransforms
\* returned
onApplyTransforms(call, run, o) ==
  LET o1 == [o EXCEPT !.transformCalls = run.calls, !.args = run.seed]
  IN IF run.mp.p
     THEN Post("awaitTransform", run.mp.c, run.mp.w, run.mp, <<>>, <<>>, o1)
     ELSE onTransformedArgs(call, run.mp.v, run.mp.c, o1)

\* a resolver that takes every args for present
absentArgs_Never(args) == FALSE

\* !args
absentArgs(args) == ~Truthy(args)

\* (root, args, ctx, info, next) => ...
resolver(call) ==
  LET o == [op |-> "resolver", transformed |-> Undefined, validated |-> FALSE,
            transformCalls |-> <<>>, validatorCalls |-> <<>>,
            pendingAtValidate |-> {}, errorsTree |-> Undefined, settled |-> FALSE,
            args |-> call.args]
  IN IF absentArgs(call.args)
     THEN Post("done", {}, {}, Now(call.args), <<call.args>>, <<>>, o)
     ELSE IF call.transform # Undefined
     THEN onApplyTransforms(call, applyTransformsRun(call.args, call.transform), o)
     ELSE onTransformedArgs(call, call.args, {}, o)

Become(post) ==
  /\ pc' = post.pc
  /\ pending' = post.pending
  /\ waitOn' = post.waitOn
  /\ outcome' = post.outcome
  /\ nextCalls' = post.nextCalls
  /\ errCalls' = post.errCalls
  /\ obs' = post.obs
  /\ result' = IF post.pc = "done" THEN post.outcome.v ELSE Undefined

\* the arguments of a field: absent, or a and the nested c.d, c null, c missing
ArgValues == {Num(n) : n \in 0..MaxVal}

ArgsValues ==
  {Undefined}
    \cup {Obj2("a", x, "c", Obj1("d", y)) : x, y \in ArgValues}
    \cup {Obj2("a", x, "c", Null) : x \in ArgValues}
    \cup {Obj1("a", x) : x \in ArgValues}

\* validators: min(1), and one that fails on every argument
Validators ==
  {Fn("min", 1, d, Undefined) : d \in BOOLEAN}
    \cup {Fn("const", 0, d, Err("invalid", 0)) : d \in BOOLEAN}

\* the last trees hold an entry that is no rule, a number, and a validator
\* declared async, min(1)
ValidatorTrees ==
  {Obj2("a", v, "c", Obj1("d", w)) : v, w \in Validators}
    \cup {Obj2("c", Obj1("d", v), "a", w) : v, w \in Validators}
    \cup {Obj1("a", Arr(<<v, w>>)) : v, w \in Validators}
    \cup {Obj2("a", Num(7), "c", Obj1("d", v)) : v \in Validators}
    \cup {Obj2("a", AsyncFn("min", 1), "c", Obj1("d", v)) : v \in Validators}

\* transformers: arg + 1 and arg * 2
Transformers == {Fn(k, 0, d, Undefined) : k \in {"inc", "dbl"}, d \in BOOLEAN}

TransformerTrees ==
  {Obj1("a", t) : t \in Transformers}
    \cup {Obj1("c", Obj1("d", t)) : t \in Transformers}
    \cup {Obj1("a", Arr(<<t, u>>)) : t, u \in Transformers}
    \cup {Obj2("a", Num(7), "c", Obj1("d", t)) : t \in Transformers}

ResolverCall ==
  /\ pc = "idle"
  /\ \E args \in ArgsValues,
        validate \in {Undefined} \cup ValidatorTrees,
        transform \in {Undefined} \cup TransformerTrees,
        abortEarly \in BOOLEAN :
       LET call == [op |-> "resolver", args |-> args, validate |-> validate,
                    transform |-> transform, abortEarly |-> abortEarly]
       IN /\ validate # Undefined \/ transform # Undefined
          /\ inp' = call
          /\ Become(resolver(call))

\* completeValue(transformedArgsOrPromise, ...) once applyTransforms resolved
TransformThen ==
  /\ pc = "awaitTransform"
  /\ waitOn \cap pending = {}
  /\ Become(onTransformedArgs(inp, outcome.v, pending, obs))
  /\ UNCHANGED inp

\* completeValue(errorsTreeOrPromise, ...) once findErrors resolved
ValidateThen ==
  /\ pc = "awaitValidate"
  /\ waitOn \cap pending = {}
  /\ Become(afterFindErrors(outcome.v, pending, obs))
  /\ UNCHANGED inp

Next == ResolverCall \/ Settle \/ TransformThen \/ ValidateThen

Spec == Init /\ [][Next]_vars

\* the same under the scheduling of the run time: a pending promise whose
\* leaf result settles is settled, and a then-callback whose promises are
\* all settled is run, which is the one step that moves pc on from
\* awaitTransform or awaitValidate (TransformThen, ValidateThen)
SpecLive ==
  /\ Spec
  /\ WF_vars(Settle)
  /\ WF_pc(/\ pc \in {"awaitTransform", "awaitValidate"}
           /\ waitOn \cap pending = {}
           /\ pc' \in {"awaitValidate", "done"})

-----------------------------------------------------------------------------
(* Properties of the walks *)

RECURSIVE LeavesOf(_, _)
\* the entries of a tree that are not mappings, with their paths
LeavesOf(tree, prefix) ==
  IF tree.t # "object" THEN {}
  ELSE UNION {IF tree.a[i].v.t = "object"
              THEN LeavesOf(tree.a[i].v, Append(prefix, tree.a[i].k))
              ELSE {[path |-> Append(prefix, tree.a[i].k), v |-> tree.a[i].v]} :
              i \in 1..Len(tree.a)}

RECURSIVE BranchesOf(_, _)
\* the paths of the entries of a tree that are mappings
BranchesOf(tree, prefix) ==
  IF tree.t # "object" THEN {}
  ELSE UNION {IF tree.a[i].v.t = "object"
              THEN {Append(prefix, tree.a[i].k)}
                     \cup BranchesOf(tree.a[i].v, Append(prefix, tree.a[i].k))
              ELSE {} :
              i \in 1..Len(tree.a)}

RECURSIVE HasPath(_, _)
HasPath(tree, path) ==
  IF path = <<>> THEN TRUE
  ELSE Has(tree, path[1]) /\ HasPath(Get(tree, path[1]), Tail(path))

IsPrefix(p, q) == Len(p) <= Len(q) /\ SubSeq(q, 1, Len(p)) = p

RECURSIVE SingleLeaf(_, _)
\* the tree that holds v at path and nothing else
SingleLeaf(path, v) ==
  IF Len(path) = 1 THEN Obj1(path[1], v)
  ELSE Obj1(path[1], SingleLeaf(Tail(path), v))

\* the leaves of the walked rule tree with what mapValue returns for each
MapLeaves ==
  {[path |-> l.path, v |-> Call(l.v, Undefined).v, d |-> l.v.d] :
     l \in LeavesOf(inp.obj, <<>>)}

\* the leaf results the walk's skipValueCondition does not skip
KeptLeaves ==
  {l \in MapLeaves :
     ~Provided(inp.o.skipValueCondition) \/ ~Holds(inp.o.skipValueCondition, l.v)}

MapDone == pc = "done" /\ inp.op = "mapObject"

\* the same rule tree with every leaf result returned immediately
RECURSIVE AllSyncTree(_)
AllSyncTree(tree) ==
  IF tree.t = "object"
  THEN Obj([i \in 1..Len(tree.a) |-> Entry(tree.a[i].k, AllSyncTree(tree.a[i].v))])
  ELSE [tree EXCEPT !.d = FALSE]

\* C4: when searchFor is set and some (kept) leaf result satisfies it, the
\* result holds exactly one leaf: the path and value of a satisfying leaf
C4_SearchForSingleLeaf ==
  (MapDone /\ Provided(inp.o.searchFor)
     /\ \E l \in KeptLeaves : Holds(inp.o.searchFor, l.v))
    => \E l \in KeptLeaves :
         /\ Holds(inp.o.searchFor, l.v)
         /\ result = SingleLeaf(l.path, l.v)

RECURSIVE HasEmptyMapping(_)
HasEmptyMapping(tree) ==
  /\ tree.t = "object"
  /\ \/ tree.a = <<>>
     \/ \E i \in 1..Len(tree.a) : HasEmptyMapping(tree.a[i].v)

\* C7: without initialValue the result holds no empty mapping: it is null
\* when no leaf result is kept, and a branch under which no leaf result is
\* kept is omitted
C7_SparseResult ==
  (MapDone /\ inp.o.initialValue = Null)
    => /\ ~HasEmptyMapping(result)
       /\ (KeptLeaves = {} => result = Null)
       /\ \A b \in BranchesOf(inp.obj, <<>>) :
            (\A l \in KeptLeaves : ~IsPrefix(b, l.path)) => ~HasPath(result, b)

C7_Witness ==
  /\ MapDone /\ inp.o.initialValue = Null
  /\ result # Null
  /\ \E b \in BranchesOf(inp.obj, <<>>) :
       /\ \E l \in MapLeaves : IsPrefix(b, l.path) /\ l.d
       /\ \A l \in KeptLeaves : ~IsPrefix(b, l.path)

\* the seed entries that are not mappings, and the empty mappings of the seed
SeedLeaves == LeavesOf(inp.o.initialValue, <<>>)

\* C8: with a non-null initialValue and no searchFor the result is the seed
\* merged with the kept results: every kept result is at its path, every
\* seed entry on whose path no kept result lies is unchanged, and the
\* result holds nothing else
C8_SeedMerged ==
  (MapDone /\ inp.o.initialValue # Null /\ ~Provided(inp.o.searchFor))
    => /\ \A l \in KeptLeaves : HasPath(result, l.path) /\ GetPath(result, l.path) = l.v
       /\ \A e \in SeedLeaves :
            (\A l \in KeptLeaves : ~IsPrefix(e.path, l.path))
              => HasPath(result, e.path) /\ GetPath(result, e.path) = e.v
       /\ \A r \in LeavesOf(result, <<>>) :
            \/ \E l \in KeptLeaves : l.path = r.path
            \/ \E e \in SeedLeaves : e.path = r.path

C8_Witness ==
  /\ MapDone /\ ~Provided(inp.o.searchFor)
  /\ inp.o.initialValue = Obj2("c", Obj2("d", Num(9), "z", Num(9)), "t", Num(9))
  /\ \E l \in KeptLeaves : l.path = <<"c", "d">> /\ l.d /\ l.v = Num(1)
  /\ \E l \in KeptLeaves : ~l.d
  /\ GetPath(result, <<"c", "z">>) = Num(9)

\* C9: the result tree is the same, with the same keys in the same order,
\* when any subset of the leaf results is returned as a promise as when
\* every leaf result is returned immediately
C9_SameTreeDeferred ==
  MapDone => result = mapObject(AllSyncTree(inp.obj), inp.o).v

-----------------------------------------------------------------------------
(* Properties of the plugin *)

ResolverRan == inp.op = "resolver" /\ Truthy(inp.args)

\* the error a rule-tree leaf yields for arg: of the function, or of the
\* first validator of the array that fails
FirstError(rule, arg) ==
  IF rule.t = "array"
  THEN IF \E i \in 1..Len(rule.a) : Call(rule.a[i], arg).v # Undefined
       THEN Call(rule.a[CHOOSE i \in 1..Len(rule.a) :
                          /\ Call(rule.a[i], arg).v # Undefined
                          /\ \A j \in 1..(i - 1) : Call(rule.a[j], arg).v = Undefined],
                 arg).v
       ELSE Undefined
  ELSE Call(rule, arg).v

\* every branch of the subject above the leaf at path is present
BranchesPresent(subject, path) ==
  \A n \in 1..(Len(path) - 1) : ~Absent(GetPath(subject, SubSeq(path, 1, n)))

\* the entries of a rule tree that are neither a function, an array nor
\* a mapping
NoRuleLeaves(tree) ==
  {l \in LeavesOf(tree, <<>>) : type(l.v) \notin {"function", "array"}}

\* the failing leaves of a validator tree on a subject, with their errors
FailingLeaves(tree, subject) ==
  {[path |-> l.path, v |-> FirstError(l.v, GetPath(subject, l.path))] :
     l \in {x \in LeavesOf(tree, <<>>) :
              /\ BranchesPresent(subject, x.path)
              /\ FirstError(x.v, GetPath(subject, x.path)) # Undefined}}

\* C1: a non-null error tree goes to onValidationError, once, and next is
\* not invoked; a null error tree lets next run with the transformed
\* arguments and onValidationError is not invoked
C1_ErrorOrNext ==
  (ResolverRan /\ obs.validated)
    => /\ ~obs.settled => (nextCalls = <<>> /\ errCalls = <<>>)
       /\ obs.settled =>
            /\ obs.errorsTree = findErrors(obs.transformed, inp.validate, inp.abortEarly).v
            /\ obs.errorsTree # Null => (errCalls = <<obs.errorsTree>> /\ nextCalls = <<>>)
            /\ obs.errorsTree = Null => (nextCalls = <<obs.transformed>> /\ errCalls = <<>>)

C1_Witness ==
  /\ ResolverRan /\ obs.settled
  /\ inp.transform # Undefined
  /\ \E l \in LeavesOf(inp.validate, <<>>) : l.v.t = "function" /\ l.v.d
  /\ obs.errorsTree # Null
  /\ Len(errCalls) = 1 /\ nextCalls = <<>>

\* C2: no transformer is still pending when the validators are invoked, and
\* the validators and next receive the transformed arguments
C2_TransformsBeforeValidators ==
  (ResolverRan /\ obs.validated)
    => /\ {id \in obs.pendingAtValidate : id.ph = "transform"} = {}
       /\ \A i \in 1..Len(obs.validatorCalls) :
            obs.validatorCalls[i].rel
              = GetPath(obs.transformed, obs.validatorCalls[i].path)
       /\ \A i \in 1..Len(nextCalls) : nextCalls[i] = obs.transformed

\* C3: with abortEarly=false the error tree (of a validator tree whose
\* entries are all rules) has an entry at exactly the failing leaves under
\* present branches, each the error of the (first) failing validator, and
\* is null when no validator fails
C3_ErrorsAtFailingLeaves ==
  (ResolverRan /\ obs.settled /\ ~inp.abortEarly /\ NoRuleLeaves(inp.validate) = {})
    => /\ LeavesOf(obs.errorsTree, <<>>) = FailingLeaves(inp.validate, obs.transformed)
       /\ FailingLeaves(inp.validate, obs.transformed) = {} => obs.errorsTree = Null

RECURSIVE LeafSeq(_, _, _)
\* the paths of the leaves of a rule tree in depth-first key order, from
\* the k-th key on
LeafSeq(tree, prefix, k) ==
  IF k > Len(tree.a) THEN <<>>
  ELSE (IF tree.a[k].v.t = "object"
        THEN LeafSeq(tree.a[k].v, Append(prefix, tree.a[k].k), 1)
        ELSE <<Append(prefix, tree.a[k].k)>>)
         \o LeafSeq(tree, prefix, k + 1)

\* the failing leaf that comes first in key order
FirstFailing(tree, subject) ==
  LET order == LeafSeq(tree, <<>>, 1)
      failing == FailingLeaves(tree, subject)
      at == CHOOSE i \in 1..Len(order) :
              /\ \E l \in failing : l.path = order[i]
              /\ \A j \in 1..(i - 1) : \A l \in failing : l.path # order[j]
  IN CHOOSE l \in failing : l.path = order[at]

\* C5: with abortEarly=true the error tree (of a validator tree whose
\* entries are all rules) holds one entry, at the path of the failing leaf
\* that comes first in key order, whichever leaves are synchronous or
\* deferred
C5_FirstFailingLeaf ==
  (ResolverRan /\ obs.settled /\ inp.abortEarly /\ NoRuleLeaves(inp.validate) = {}
     /\ FailingLeaves(inp.validate, obs.transformed) # {})
    => {l.path : l \in LeavesOf(obs.errorsTree, <<>>)}
         = {FirstFailing(inp.validate, obs.transformed).path}

\* the branches of a rule tree whose subject value is absent
PrunedBranches(tree, subject) ==
  {b \in BranchesOf(tree, <<>>) : Absent(GetPath(subject, b))}

\* C6: under a rule subtree whose subject value is undefined or null no
\* leaf rule is invoked, and the subtree adds nothing to the result
C6_AbsentBranchPruned ==
  ResolverRan
    => /\ inp.transform # Undefined =>
            \A b \in PrunedBranches(inp.transform, inp.args) :
              /\ \A i \in 1..Len(obs.transformCalls) :
                   ~IsPrefix(b, obs.transformCalls[i].path)
              /\ \A id \in pending : id.ph = "transform" => ~IsPrefix(b, id.path)
              /\ obs.transformed # Undefined =>
                   /\ GetPath(obs.transformed, b) = GetPath(inp.args, b)
                   /\ HasPath(obs.transformed, b) = HasPath(inp.args, b)
       /\ obs.validated =>
            \A b \in PrunedBranches(inp.validate, obs.transformed) :
              /\ \A i \in 1..Len(obs.validatorCalls) :
                   ~IsPrefix(b, obs.validatorCalls[i].path)
              /\ \A id \in pending : id.ph = "validate" => ~IsPrefix(b, id.path)
              /\ obs.settled => ~HasPath(obs.errorsTree, b)

C6_Witness ==
  /\ ResolverRan /\ obs.settled
  /\ inp.transform # Undefined /\ PrunedBranches(inp.transform, inp.args) # {}
  /\ \E b \in PrunedBranches(inp.validate, obs.transformed) :
       \E l \in LeavesOf(inp.validate, <<>>) :
         IsPrefix(b, l.path) /\ FirstError(l.v, Undefined) # Undefined
  /\ obs.errorsTree # Null

-----------------------------------------------------------------------------
(* Properties of the rule combinators *)

RuleDone(op) == pc = "done" /\ inp.op = op

RECURSIVE Pipe(_, _)
\* tn(...t2(t1(x))): every transformer applied to the output of the one
\* before it
Pipe(transformers, x) ==
  IF transformers = <<>> THEN x
  ELSE Pipe(Tail(transformers), Call(Head(transformers), x).v)

RECURSIVE ErrorsOf(_, _)
\* the errors of the validators that fail on arg, in list order
ErrorsOf(validators, arg) ==
  IF validators = <<>> THEN <<>>
  ELSE (IF Call(Head(validators), arg).v = Undefined THEN <<>>
        ELSE <<Call(Head(validators), arg).v>>)
         \o ErrorsOf(Tail(validators), arg)

SomeDeferred(rules) == \E i \in 1..Len(rules) : rules[i].d

\* C11: combineTransformers([t1, ..., tn])(x) is tn(...t2(t1(x))), whichever
\* of the transformers return immediately or return a promise
C11_TransformersPiped ==
  RuleDone("combineTransformers") => result = Pipe(inp.rules, inp.arg)

\* C12: on an input on which several child validators fail, andValidators
\* returns the error of the first failing one with abortEarly=true, and
\* the sequence of the errors of all failing ones with abortEarly=false
C12_AndFirstOrAll ==
  (RuleDone("andValidators") /\ inp.error = Undefined
     /\ Len(ErrorsOf(inp.rules, inp.arg)) >= 2)
    => result = IF inp.abortEarly THEN Head(ErrorsOf(inp.rules, inp.arg))
                ELSE Arr(ErrorsOf(inp.rules, inp.arg))

\* C13: andValidators returns undefined whenever every child validator
\* passes, for abortEarly true and false, immediate or deferred
C13_AndAllPass ==
  (RuleDone("andValidators") /\ ErrorsOf(inp.rules, inp.arg) = <<>>)
    => result = Undefined

\* C14: orValidators returns undefined exactly when at least one child
\* validator passes; when every child fails and no override error is given
\* it returns the sequence of all child errors in list order
C14_OrPassesIffOnePasses ==
  RuleDone("orValidators")
    => /\ (result = Undefined)
            <=> (Len(ErrorsOf(inp.rules, inp.arg)) < Len(inp.rules))
       /\ (Len(ErrorsOf(inp.rules, inp.arg)) = Len(inp.rules)
             /\ inp.error = Undefined)
            => result = Arr(ErrorsOf(inp.rules, inp.arg))

\* orValidators([min(5), max(10)]) with both children returning immediately
MinMaxCall ==
  /\ RuleDone("orValidators")
  /\ inp.rules = <<Fn("min", 5, FALSE, Undefined), Fn("max", 10, FALSE, Undefined)>>
  /\ inp.error = Undefined

\* C15, as stated: orValidators([min(5), max(10)]) returns no error on 7
\* and the combined failure of both child validators on 20
C15_OrMinMaxAsStated ==
  MinMaxCall
    => /\ inp.arg = Num(7) => result = Undefined
       /\ inp.arg = Num(20) => result = Arr(<<Err("min", 5), Err("max", 10)>>)

\* C15, amended: orValidators([min(5), max(10)]) returns no error on 7 and
\* on 20 (min(5) passes on 20), and on every number: no number is below 5
\* and above 10, so the combined failure of both never occurs
C15_OrMinMax ==
  MinMaxCall => result = Undefined

C15_Witness ==
  MinMaxCall /\ inp.arg = Num(20) /\ result = Undefined

\* C16: notValidator(validator, error) returns error exactly when validator
\* passes and undefined exactly when it fails, immediate or deferred
C16_NotInverts ==
  RuleDone("notValidator")
    => /\ (result = inp.error) <=> (Call(inp.rules[1], inp.arg).v = Undefined)
       /\ (result = Undefined) <=> (Call(inp.rules[1], inp.arg).v # Undefined)

C16_Witness ==
  /\ RuleDone("notValidator") /\ outcome.p
  /\ Call(inp.rules[1], inp.arg).v = Undefined
  /\ result = inp.error

\* C17: with an override error, andValidators and orValidators return
\* exactly that error on every input on which they fail: some child fails
\* for andValidators, every child fails for orValidators
C17_OverrideError ==
  (pc = "done" /\ inp.op \in {"andValidators", "orValidators"}
     /\ inp.error # Undefined
     /\ IF inp.op = "andValidators"
        THEN ErrorsOf(inp.rules, inp.arg) # <<>>
        ELSE Len(ErrorsOf(inp.rules, inp.arg)) = Len(inp.rules))
    => result = inp.error

-----------------------------------------------------------------------------
(* Properties of arrays at leaves and of what the walks return *)

NextCalls ==
  \/ CallReduceAsync
  \/ CallMapObject
  \/ Settle
  \/ ReduceThen
  \/ MapObjectThen

SpecCalls == Init /\ [][NextCalls]_vars

\* the call returned a promise / returned its result immediately
ReturnedPromise == outcome.p

\* C19: reduceAsync and mapObject return a promise only if an evaluate
\* call / a leaf rule that was called returned one; when none did the
\* result is returned immediately
C19_PromiseOnlyIfDeferred ==
  /\ inp.op = "reduceAsync"
       => /\ ReturnedPromise => \E i \in 1..Len(inp.c.array) : inp.c.array[i].d
          /\ ~ReturnedPromise => pc = "done"
  /\ inp.op = "mapObject"
       => /\ ReturnedPromise
               => \E i \in 1..Len(obs.calls) : GetPath(inp.obj, obs.calls[i].path).d
          /\ ~ReturnedPromise => pc = "done"

C19_Witness ==
  /\ inp.op = "mapObject" /\ pc = "done" /\ ~ReturnedPromise
  /\ Len(obs.calls) >= 2
  /\ \A l \in LeavesOf(inp.obj, <<>>) : ~l.v.d
  /\ result # Null

\* C20: the merge of resolved results applies searchFor and
\* skipValueCondition as the synchronous pass does: a walk whose leaves
\* are all deferred returns the same tree as the walk with immediate leaves
C20_DeferredMergeAsSync ==
  (MapDone /\ \A l \in LeavesOf(inp.obj, <<>>) : l.v.d)
    => result = mapObject(AllSyncTree(inp.obj), inp.o).v

-----------------------------------------------------------------------------
(* Properties of the recorded access keys and of the inputs of a walk *)

\* C21: every leaf entry of the result of a walk is a kept leaf result at
\* the path of the leaf that produced it (or an entry of the seed), and
\* when results are merged (no searchFor) every kept result that was
\* pending is at the path of its own leaf, in every order in which the
\* pending results settle
C21_ResultAtOwnPath ==
  MapDone =>
    /\ \A r \in LeavesOf(result, <<>>) :
         \/ \E l \in KeptLeaves : l.path = r.path /\ l.v = r.v
         \/ r \in SeedLeaves
    /\ ~Provided(inp.o.searchFor) =>
         \A l \in KeptLeaves :
           l.d => HasPath(result, l.path) /\ GetPath(result, l.path) = l.v

C21_Witness ==
  /\ MapDone /\ ~Provided(inp.o.searchFor) /\ ReturnedPromise
  /\ \E l, m \in KeptLeaves :
       /\ l.d /\ m.d /\ Len(l.path) # Len(m.path) /\ l.v # m.v
       /\ GetPath(result, l.path) = l.v /\ GetPath(result, m.path) = m.v

\* C22: a walk leaves the object passed as initialValue as it was
C22_SeedUnchanged ==
  inp.op = "mapObject" => obs.seed = inp.o.initialValue

-----------------------------------------------------------------------------
(* Properties of the resolver and of rule entries that are no rules *)

\* C23: called with absent arguments the resolver runs neither
\* applyTransforms nor findErrors (no transformed arguments, no leaf of
\* either tree visited), does not invoke onValidationError, and invokes
\* next once, with the arguments as they were
C23_AbsentArgsGoToNext ==
  (inp.op = "resolver" /\ Absent(inp.args))
    => /\ pc = "done"
       /\ obs.transformed = Undefined /\ obs.transformCalls = <<>>
       /\ ~obs.validated /\ obs.validatorCalls = <<>>
       /\ pending = {}
       /\ errCalls = <<>>
       /\ nextCalls = <<inp.args>>
       /\ obs.args = inp.args

C23_Witness ==
  /\ inp.op = "resolver" /\ inp.args = Undefined
  /\ inp.transform # Undefined /\ inp.validate # Undefined
  /\ nextCalls = <<Undefined>>

\* C24: an entry of a rule tree that is no rule adds no entry to the error
\* tree of findErrors and leaves the value of its field as it was in the
\* tree of applyTransforms
C24_NoRuleIgnored ==
  (ResolverRan /\ pc = "done")
    => /\ obs.validated =>
            \A l \in NoRuleLeaves(inp.validate) : ~HasPath(obs.errorsTree, l.path)
       /\ inp.transform # Undefined =>
            \A l \in NoRuleLeaves(inp.transform) :
              GetPath(obs.transformed, l.path) = GetPath(inp.args, l.path)

-----------------------------------------------------------------------------
(* Properties of the results a walk keeps *)

\* C25: a walk without skipValueCondition (and without seed and searchFor)
\* creates no entry for a leaf whose mapped result is undefined, and keeps
\* every other result at its path
C25_UndefinedNotKept ==
  (MapDone /\ ~Provided(inp.o.skipValueCondition)
     /\ ~Provided(inp.o.searchFor) /\ inp.o.initialValue = Null)
    => \A l \in MapLeaves :
         IF l.v = Undefined THEN ~HasPath(result, l.path)
         ELSE HasPath(result, l.path) /\ GetPath(result, l.path) = l.v

\* C26: with searchFor set, when every leaf result is returned immediately
\* and none satisfies searchFor, the result holds every result that
\* skipValueCondition does not skip, at the path of its leaf
C26_UnmatchedAssigned ==
  (MapDone /\ Provided(inp.o.searchFor)
     /\ \A l \in MapLeaves : ~l.d /\ ~Holds(inp.o.searchFor, l.v))
    => \A l \in KeptLeaves :
         HasPath(result, l.path) /\ GetPath(result, l.path) = l.v

-----------------------------------------------------------------------------
(* Properties of reduceAsync *)

\* C27: when the callback never returns early and manipulateReturn is
\* given, the result is manipulateReturn applied to the final accumulator
\* (what the same call returns without manipulateReturn), whether or not an
\* evaluation was deferred
C27_ManipulateReturnApplied ==
  (RuleDone("reduceAsync") /\ inp.c.m.cb = "add" /\ inp.c.m.manip # "none")
    => result = manipulateReturn(inp.c,
                  reduceAsync([inp.c EXCEPT !.m.manip = "none"], inp.initialValue).v)

\* C28: when no promise was returned (every evaluation so far was
\* synchronous) and the callback of item i called returnEarly(v), the call
\* returned v, and that callback is the last invocation: neither evaluate
\* nor callback is invoked for an item after i
C28_SyncEarlyReturn ==
  (inp.op = "reduceAsync" /\ ~ReturnedPromise)
    => \A k \in 1..Len(obs.log) :
         (obs.log[k].f = "callback" /\ obs.log[k].early)
           => /\ pc = "done"
              /\ result = obs.log[k].result
              /\ k = Len(obs.log)
              /\ \A k2 \in 1..Len(obs.log) : obs.log[k2].j <= obs.log[k].j

C28_Witness ==
  /\ inp.op = "reduceAsync" /\ ~ReturnedPromise
  /\ inp.c.m.cb = "addEarlyUndefined" /\ inp.c.m.manip = "double"
  /\ Len(inp.c.array) = MaxLen
  /\ \E k \in 1..Len(obs.log) :
       obs.log[k].f = "callback" /\ obs.log[k].early /\ obs.log[k].j = 2
  /\ result = Undefined

\* C29: when evaluate returned a promise for item i, evaluate was invoked
\* exactly once for each item after i before any callback for an item from
\* i on, and the then-callback invokes callback for the items from i on in
\* index order, each with the evaluated value of its own item, up to the
\* first that calls returnEarly
C29_ReplayInOrder ==
  (RuleDone("reduceAsync") /\ ReturnedPromise)
    => LET log == obs.log
           n == Len(inp.c.array)
           lastEv == CHOOSE k \in 1..Len(log) :
                       /\ log[k].f = "evaluate"
                       /\ \A k2 \in (k+1)..Len(log) : log[k2].f = "callback"
           i == 1 + Cardinality({k \in 1..lastEv : log[k].f = "callback"})
       IN /\ \A j \in (i+1)..n :
               Cardinality({k \in 1..lastEv :
                              log[k].f = "evaluate" /\ log[k].j = j}) = 1
          /\ \A k \in (lastEv+1)..Len(log) :
               /\ log[k].j = i + (k - lastEv - 1)
               /\ log[k].v = Evaluate(inp.c, inp.initialValue, inp.c.array[log[k].j]).v
               /\ log[k].early => k = Len(log)
          /\ (\A k \in (lastEv+1)..Len(log) : ~log[k].early)
               => Len(log) - lastEv = n - i + 1

-----------------------------------------------------------------------------
(* Properties of the search of a walk *)

\* C30: with searchFor set, once mapValue returned, not as a promise, a
\* result that satisfies searchFor, that leaf is the last one mapValue is
\* called for, the walk is done, and the result holds the result of no
\* leaf that was pending
C30_SyncMatchStopsWalk ==
  (inp.op = "mapObject" /\ Provided(inp.o.searchFor))
    => \A l \in MapLeaves :
         (/\ ~l.d /\ Holds(inp.o.searchFor, l.v)
          /\ \E k \in 1..Len(obs.calls) : obs.calls[k].path = l.path)
           => /\ obs.calls[Len(obs.calls)].path = l.path
              /\ pc = "done"
              /\ \A m \in MapLeaves : m.d => ~HasPath(result, m.path)

-----------------------------------------------------------------------------
(* Properties of the validators and transformers *)

\* C31: a validator built by defineValidator (with a condition that
\* returns a boolean) follows its nullability strategy: under "normal" it
\* returns no error for null and undefined whatever the condition would
\* say; under "strict" the error is decided by the condition on the
\* argument as it is; under "strict-with-null" by the condition on null
\* when the argument is undefined or null
C31_NullabilityStrategy ==
  (RuleDone("defineValidator") /\ ~inp.cond.d)
    => LET decided(a) ==
             (result # Undefined)
               <=> (errorOrPassCondition(inp.cond, a) = inp.takeErrorCondition)
       IN CASE inp.nullabilityStrategy = "normal" ->
                 IF Absent(inp.arg) THEN result = Undefined ELSE decided(inp.arg)
            [] inp.nullabilityStrategy = "strict" -> decided(inp.arg)
            [] inp.nullabilityStrategy = "strict-with-null" ->
                 decided(IF Absent(inp.arg) THEN Null ELSE inp.arg)

C31_Witness ==
  /\ RuleDone("defineValidator") /\ inp.cond = Cond("isNull", 1, 0, FALSE)
  /\ inp.nullabilityStrategy = "strict-with-null" /\ inp.takeErrorCondition
  /\ inp.arg = Undefined
  /\ result = Err("custom", 0)

\* C32: nonEmpty returns the "non-empty" error on an empty string or
\* array and no error on one that has an element
C32_NonEmptyFailsOnEmpty ==
  RuleDone("nonEmpty")
    => ((result = Err("non-empty", 0)) <=> (Len(inp.arg.a) = 0))
         /\ (result = Undefined <=> Len(inp.arg.a) > 0)

\* C33: for lowerBound <= upperBound, range passes on x exactly when
\* lowerBound <= x <= upperBound, which is when min(lowerBound) and
\* max(upperBound) both pass; min(n) fails exactly when x < n and max(n)
\* exactly when x > n
C33_RangeIsMinAndMax ==
  LET x == inp.arg.n
  IN /\ RuleDone("range") =>
          /\ (result = Undefined) <=> (inp.lowerBound <= x /\ x <= inp.upperBound)
          /\ (result = Undefined)
               <=> (min(inp.lowerBound, inp.arg) = Undefined
                      /\ max(inp.upperBound, inp.arg) = Undefined)
     /\ RuleDone("min") => ((result = Err("min", inp.lowerBound)) <=> x < inp.lowerBound)
     /\ RuleDone("min") => ((result = Undefined) <=> x >= inp.lowerBound)
     /\ RuleDone("max") => ((result = Err("max", inp.upperBound)) <=> x > inp.upperBound)
     /\ RuleDone("max") => ((result = Undefined) <=> x <= inp.upperBound)

C33_Witness ==
  /\ RuleDone("range") /\ inp.lowerBound < inp.upperBound
  /\ inp.arg = Num(inp.upperBound)
  /\ result = Undefined

\* C34: clamp(lowerBound, upperBound) with lowerBound <= upperBound
\* returns for a number x a value not below a defined lowerBound and not
\* above a defined upperBound, also when the bound is 0, and x itself when
\* x lies within the defined bounds
C34_ClampWithinBounds ==
  (RuleDone("transformer") /\ inp.name = "clamp")
    => /\ ~Absent(inp.lowerBound) => result.n >= inp.lowerBound.n
       /\ ~Absent(inp.upperBound) => result.n <= inp.upperBound.n
       /\ ((Absent(inp.lowerBound) \/ inp.arg.n >= inp.lowerBound.n)
            /\ (Absent(inp.upperBound) \/ inp.arg.n <= inp.upperBound.n))
           => result = inp.arg

\* C35: a nullable transformer returns null and undefined as they are and
\* for every other argument, the empty string and 0 included, what its
\* counterpart returns
C35_NullableAsCounterpart ==
  (RuleDone("transformer") /\ inp.name # "clamp")
    => IF Absent(inp.arg) THEN result = inp.arg
       ELSE result = (CASE inp.name = "trimNullable" -> trim(inp.arg)
                        [] inp.name = "lowercaseNullable" -> lowercase(inp.arg)
                        [] inp.name = "uppercaseNullable" -> uppercase(inp.arg)
                        [] inp.name = "clampNullable" ->
                             clamp(inp.lowerBound, inp.upperBound, inp.arg))

\* C36: assignObjectAt(obj, path, value) with a non-empty path returns obj
\* with value at the nested path and a mapping at every intermediate key
\* of the path, and every path that neither leads to the assigned path nor
\* lies below it holds what it held in obj, the keys of obj in their order
C36_AssignObjectAt ==
  RuleDone("assignObjectAt")
    => /\ GetPath(result, inp.accessKey) = inp.value
       /\ \A i \in 1..(Len(inp.accessKey) - 1) :
            GetPath(result, SubSeq(inp.accessKey, 1, i)).t = "object"
       /\ \A q \in UNION {[1..len -> {"a", "b", "c"}] : len \in 1..MaxLen} :
            (~IsPrefix(q, inp.accessKey) /\ ~IsPrefix(inp.accessKey, q))
              => GetPath(result, q) = GetPath(inp.obj, q)
       /\ IsPrefix(Keys(inp.obj), Keys(result))

\* a path of three keys is assigned below a mapping that has other entries:
\* the first key holds a mapping, the second is missing
C36_Witness ==
  /\ RuleDone("assignObjectAt")
  /\ Len(inp.accessKey) = 3
  /\ GetPath(inp.obj, SubSeq(inp.accessKey, 1, 1)).t = "object"
  /\ GetPath(inp.obj, SubSeq(inp.accessKey, 1, 1)).a # <<>>
  /\ ~HasPath(inp.obj, SubSeq(inp.accessKey, 1, 2))
  /\ Len(inp.obj.a) = 2
  /\ GetPath(result, inp.accessKey) = inp.value

-----------------------------------------------------------------------------
(* Properties of the plugin as a whole *)

\* C37: next is invoked only if no validator under present branches of the
\* validator tree fails on the transformed arguments, and once the
\* validators have settled a failing validator has led to onValidationError
\* and not to next
C37_NextOnlyIfAllPass ==
  ResolverRan
    => /\ nextCalls # <<>> => FailingLeaves(inp.validate, obs.transformed) = {}
       /\ (obs.settled /\ FailingLeaves(inp.validate, obs.transformed) # {})
            => (Len(errCalls) = 1 /\ nextCalls = <<>>)

\* C38: in every resolver call with present arguments at most one of next
\* and onValidationError is invoked, at most once, and when every pending
\* leaf result settles one of them eventually is
C38_ExactlyOneEventually ==
  /\ [](ResolverRan => Len(nextCalls) + Len(errCalls) <= 1)
  /\ ResolverRan ~> (Len(nextCalls) + Len(errCalls) = 1)

\* a call whose transformers and validators both returned promises has
\* come to its one callback
C38_Witness ==
  /\ ResolverRan /\ pc = "done"
  /\ inp.transform # Undefined
  /\ \E id \in obs.pendingAtValidate : id.ph = "transform"
  /\ \E l \in LeavesOf(inp.validate, <<>>) : l.v.t = "function" /\ l.v.d
  /\ Len(nextCalls) + Len(errCalls) = 1

\* C39: the walks of the plugin without searchFor (applyTransforms, and
\* findErrors with abortEarly=false) call mapValue for the entries of the
\* rule tree that are no mappings and lie under present branches, each
\* once, in depth-first key order, with the value at the same path of the
\* related object, and for no other entry
C39_LeavesVisitedInOrder ==
  ResolverRan
    => /\ inp.transform # Undefined =>
            obs.transformCalls
              = LET paths == SelectSeq(LeafSeq(inp.transform, <<>>, 1),
                                       LAMBDA p : BranchesPresent(inp.args, p))
                IN [i \in 1..Len(paths) |->
                      [path |-> paths[i], rel |-> GetPath(inp.args, paths[i])]]
       /\ (obs.validated /\ ~inp.abortEarly) =>
            obs.validatorCalls
              = LET paths == SelectSeq(LeafSeq(inp.validate, <<>>, 1),
                                       LAMBDA p : BranchesPresent(obs.transformed, p))
                IN [i \in 1..Len(paths) |->
                      [path |-> paths[i], rel |-> GetPath(obs.transformed, paths[i])]]

\* C40: on an argument that is neither null nor undefined a validator
\* built by defineValidator returns [errorCode, extras] exactly when the
\* boolean the condition yields, at once or as the value of the promise it
\* returns, equals takeErrorCondition
C40_ConditionOutcomeDecides ==
  (RuleDone("defineValidator") /\ ~Absent(inp.arg))
    => ((result = Err("custom", 0))
          <=> (errorOrPassCondition(inp.cond, inp.arg) = inp.takeErrorCondition))

====
